---- MODULE Spec2Model ----
(***************************************************************************)
(* Landing page controller (src/js/app.js, final revision, lines 140-711): *)
(* ScrollManager, Navigation, focusSection and pageSetup, together with    *)
(* the part of the browser they drive (scroll position, scroll events,     *)
(* timers, class lists).                                                   *)
(*                                                                         *)
(* Numbers.  JavaScript numbers are modelled as exact rationals <<n, d>>   *)
(* (d > 0, lowest terms), so the interpolation arithmetic of               *)
(* _scrollToPosition is computed as written, without rounding.             *)
(* Lengths are in vh, the stylesheet's unit (1/100 of the viewport).       *)
(***************************************************************************)
EXTENDS Integers, Sequences, FiniteSets, TLC

VARIABLES
    contentSections,  \* NodeList '#content > .section': Seq of [id, nav, bg]
    window,           \* [innerWidth, innerHeight, scrollY, scrollPending, asked]
    dom,              \* class lists and listeners of the elements the code touches
    scrollManager,    \* ScrollManager fields
    nav,              \* Navigation fields
    timers,           \* the browser's pending timers
    page,             \* "loading" | "ready" | "error" (pageSetup threw)
    hist              \* ghost: counters, and the last user event and what it found

vars == <<contentSections, window, dom, scrollManager, nav, timers, page, hist>>

-----------------------------------------------------------------------------
(* Bounds of the model *)

\* The default scroll duration in STEP periods (1.2s / 20ms = 60 in the
\* stylesheet; scaled down so that an animation is a few ticks long).
DefaultSteps == 2
\* User events (clicks, pointer moves, resizes, scrolls) per behaviour of Spec.
MaxUserEvents == 2
\* Direct ScrollManager calls and user scrolls per behaviour of SpecSM.
MaxCalls == 2
\* Longest markup drawn by SpecSetup.
MaxDocLen == 3

-----------------------------------------------------------------------------
(* Program constants *)

STEP == 20
TIMEOUT_TIME == 1000
\* '(max-width: 960px)'
SmallScreenMaxWidth == 960
\* 100vh
FullHeight == 100
\* .section { height: 97vh }
SectionHeight == 97

\* An optional number argument: undefined, or a value.
Undefined == [undefined |-> TRUE, value |-> 0]

Num(n) == [undefined |-> FALSE, value |-> n]

-----------------------------------------------------------------------------
(* Exact rational arithmetic *)
(* The operations are functions, so that each works on the values of its   *)
(* operands.                                                               *)

Abs(x) == IF x < 0 THEN -x ELSE x

\* Euclid's algorithm
Euclid[a \in Nat, b \in Nat] == IF b = 0 THEN a ELSE Euclid[b, a % b]

Pairs == Int \X Int

Lowest[n \in Int, d \in Int] ==
    LET g == Euclid[Abs(n), d] IN <<n \div g, d \div g>>

\* n / d in lowest terms
Rat(n, d) == Lowest[n, d]

I(n) == <<n, 1>>

Sum[a \in Pairs, b \in Pairs] ==
    LET g == Euclid[a[2], b[2]] IN
    Lowest[a[1] * (b[2] \div g) + b[1] * (a[2] \div g), (a[2] \div g) * b[2]]

RAdd(a, b) == Sum[a, b]

RNeg(a) == <<-a[1], a[2]>>

RSub(a, b) == Sum[a, RNeg(b)]

Product[a \in Pairs, b \in Pairs] ==
    LET g1 == Euclid[Abs(a[1]), b[2]]
        g2 == Euclid[Abs(b[1]), a[2]]
    IN  Lowest[(a[1] \div g1) * (b[1] \div g2), (a[2] \div g2) * (b[2] \div g1)]

RMul(a, b) == Product[a, b]

Less[a \in Pairs, b \in Pairs] ==
    LET g == Euclid[a[2], b[2]] IN a[1] * (b[2] \div g) < b[1] * (a[2] \div g)

RLt(a, b) == Less[a, b]

RLe(a, b) == ~Less[b, a]

RAbs(a) == <<Abs(a[1]), a[2]>>

-----------------------------------------------------------------------------
(* Layout: the sections are stacked from the top of the document, each     *)
(* SectionHeight high (src/unnamed/part_003, '.section').                  *)

Indices == 1..Len(contentSections)

\* section.offsetTop of the i-th section
OffsetTop(i) == (i - 1) * SectionHeight

DocumentHeight == Len(contentSections) * SectionHeight

\* The largest scroll offset the browser allows in a window h high.
MaxScrollY(h) ==
    IF DocumentHeight > h THEN DocumentHeight - h ELSE 0

\* The browser clamps a requested scroll offset to the scrollable range.
ClampScroll(h, y) ==
    IF RLt(y, I(0)) THEN I(0)
    ELSE IF RLt(I(MaxScrollY(h)), y) THEN I(MaxScrollY(h))
    ELSE y

\* section.getBoundingClientRect().y
BoundingY(w, i) == RSub(I(OffsetTop(i)), w.window.scrollY)

\* y + height / 2 of the i-th section
YCenter(w, i) == RAdd(BoundingY(w, i), Rat(SectionHeight, 2))

\* window.innerHeight / 2
WindowYCenter(w) == Rat(w.window.innerHeight, 2)

-----------------------------------------------------------------------------
(* The world a handler runs in: the variables as one record.               *)

\* (ghost) A handler finds the pending inactivity timer armed by an earlier
\* handler: "fresh" tells that resetTimeout armed it in the handler that ran last.
World ==
    [window |-> window, dom |-> dom, sm |-> scrollManager, nav |-> nav,
     timers |-> [timers EXCEPT !.inactivity.armed =
                                   IF @ = "fresh" THEN "stale" ELSE @],
     page |-> page, hist |-> hist]

\* The world a handler leaves becomes the next state.
Commit(w) ==
    \E v \in {w} :
        /\ window' = v.window
        /\ dom' = v.dom
        /\ scrollManager' = v.sm
        /\ nav' = v.nav
        /\ timers' = v.timers
        /\ page' = v.page
        /\ hist' = v.hist
        /\ UNCHANGED contentSections

-----------------------------------------------------------------------------
(* Helper functions (app.js 147-217) *)

hasSmallScreen(w) == w.window.innerWidth <= SmallScreenMaxWidth

\* The index of the first section with the given id, 0 when there is none
\* (the element getSectionWithId returns, or undefined).
RECURSIVE FindFrom(_, _, _)
FindFrom(sections, sectionId, i) ==
    IF i > Len(sections) THEN 0
    ELSE IF sections[i].id = sectionId THEN i
    ELSE FindFrom(sections, sectionId, i + 1)

getSectionWithId(sectionId, sections) == FindFrom(sections, sectionId, 1)

\* |yCenter - windowYCenter| of the i-th section (app.js 216)
Distance(w, i) == RAbs(RSub(YCenter(w, i), WindowYCenter(w)))

\* isSectionInView without Math.abs.
isSectionInViewSigned(w, i, withinScreenPercent) ==
    RLt(RSub(YCenter(w, i), WindowYCenter(w)),
        RMul(withinScreenPercent, I(w.window.innerHeight)))

isSectionInView(w, i, withinScreenPercent) ==
    RLt(RAbs(RSub(YCenter(w, i), WindowYCenter(w))),
        RMul(withinScreenPercent, I(w.window.innerHeight)))

-----------------------------------------------------------------------------
(* window.scrollTo(0, y): the offset is clamped; a scroll event is queued  *)
(* when the offset changed.  window.asked (ghost) keeps the y asked for.   *)

WindowScrollTo(w, y) ==
    LET c == ClampScroll(w.window.innerHeight, y) IN
    [w EXCEPT !.window.scrollY = c,
              !.window.scrollPending = @ \/ (c # w.window.scrollY),
              !.window.asked = y]

-----------------------------------------------------------------------------
(* ScrollManager (app.js 233-283) *)

\* Motion with the ease-out curve whatever smoothly says.
MotionEased(smoothly, t) ==
    LET u == RSub(t, I(1)) IN RAdd(RMul(RMul(u, u), u), I(1))

\* The easing function scrollTo picks.
Motion(smoothly, t) ==
    IF smoothly
    THEN LET u == RSub(t, I(1)) IN RAdd(RMul(RMul(u, u), u), I(1))
    ELSE t

\* ClearScrollTimeout without the clearTimeout.
KeepScrollTimeout(w) == w

\* clearTimeout(this._timeOutId): the pending timer whose id the field holds.
ClearScrollTimeout(w) ==
    [w EXCEPT !.timers.scroll = {tm \in @ : ~tm.isTimeOutId}]

\* this._timeOutId = setTimeout(() => this._scrollToPosition(...), STEP).
\* ghost = [elapsed |-> ms since scrollTo was called, call |-> which scrollTo call]
SetScrollTimeout(w, from, to, timeSinceStart, speed, smoothly, ghost) ==
    [w EXCEPT !.timers.scroll =
        {[tm EXCEPT !.isTimeOutId = FALSE] : tm \in @} \cup
        {[from |-> from, to |-> to, timeSinceStart |-> timeSinceStart,
          speed |-> speed, smoothly |-> smoothly, isTimeOutId |-> TRUE,
          elapsed |-> ghost.elapsed + STEP, call |-> ghost.call]}]

\* scrollToPosition whose snap writes the start offset.
scrollToPositionSnapBack(w, from, to, timeSinceStart, speed, smoothly, ghost) ==
    LET w1 == [w EXCEPT !.sm.triggeredScrollEvent = TRUE] IN
    IF RLt(timeSinceStart, I(0)) \/ RLt(I(1), timeSinceStart) \/ RLe(speed, I(0))
    THEN WindowScrollTo(w1, from)
    ELSE LET pos == RSub(from, RMul(RSub(from, to), Motion(smoothly, timeSinceStart)))
             w2 == WindowScrollTo(w1, pos)
         IN  SetScrollTimeout(w2, from, to,
                 RAdd(timeSinceStart, RMul(speed, I(STEP))), speed, smoothly, ghost)

\* _scrollToPosition (app.js 268-282); speed is a rational.
scrollToPosition(w, from, to, timeSinceStart, speed, smoothly, ghost) ==
    LET w1 == [w EXCEPT !.sm.triggeredScrollEvent = TRUE] IN
    IF RLt(timeSinceStart, I(0)) \/ RLt(I(1), timeSinceStart) \/ RLe(speed, I(0))
    THEN WindowScrollTo(w1, to)
    ELSE LET pos == RSub(from, RMul(RSub(from, to), Motion(smoothly, timeSinceStart)))
             w2 == WindowScrollTo(w1, pos)
         IN  SetScrollTimeout(w2, from, to,
                 RAdd(timeSinceStart, RMul(speed, I(STEP))), speed, smoothly, ghost)

\* scrollTo that clears the pending timer only when it animates.
scrollToJumpOnly(w, target, duration, smoothly) ==
    LET targetY == I(OffsetTop(target))
        w0 == [w EXCEPT !.hist.calls = @ + 1,
                        !.hist.focusAtCall =
                            {i \in DOMAIN w.dom.sections : "focus" \in w.dom.sections[i]}]
        d == IF duration.undefined THEN w.sm.defaultDuration ELSE duration.value
    IN  IF d > 0
        THEN scrollToPosition(ClearScrollTimeout(w0), w0.window.scrollY, targetY, I(0),
                              Rat(1, d), smoothly, [elapsed |-> 0, call |-> w0.hist.calls])
        ELSE WindowScrollTo([w0 EXCEPT !.sm.triggeredScrollEvent = TRUE], targetY)

\* scrollManager.scrollTo(target, duration, smoothly) (app.js 247-266);
\* target is a section index.  The ghost record counts the call and keeps
\* the sections that are focused as it is made.
scrollTo(w, target, duration, smoothly) ==
    LET targetY == I(OffsetTop(target))
        w0 == [w EXCEPT !.hist.calls = @ + 1,
                        !.hist.focusAtCall =
                            {i \in DOMAIN w.dom.sections : "focus" \in w.dom.sections[i]}]
        w1 == ClearScrollTimeout(w0)
        d == IF duration.undefined THEN w.sm.defaultDuration ELSE duration.value
    IN  IF d > 0
        THEN scrollToPosition(w1, w1.window.scrollY, targetY, I(0), Rat(1, d), smoothly,
                              [elapsed |-> 0, call |-> w0.hist.calls])
        ELSE WindowScrollTo([w1 EXCEPT !.sm.triggeredScrollEvent = TRUE], targetY)

-----------------------------------------------------------------------------
(* Class-list helpers *)

\* A class of the gradient element: <<"gradient-bg--", scheme>>, or
\* <<"", name>> for any other class; /^gradient-bg--/ tests the first part.
GradientPrefix == "gradient-bg--"

IsGradientClass(className) == className[1] = GradientPrefix

RemoveAt(s, i) == SubSeq(s, 1, i - 1) \o SubSeq(s, i + 1, Len(s))

RECURSIVE IndexOf(_, _, _)
IndexOf(s, x, i) ==
    IF i > Len(s) THEN 0 ELSE IF s[i] = x THEN i ELSE IndexOf(s, x, i + 1)

\* classList.remove on an ordered token list
ListRemove(s, x) ==
    LET i == IndexOf(s, x, 1) IN IF i = 0 THEN s ELSE RemoveAt(s, i)

\* classList.add on an ordered token list
ListAdd(s, x) == IF IndexOf(s, x, 1) = 0 THEN Append(s, x) ELSE s

\* String.prototype.toLowerCase on the scheme names the markup uses.
toLowerCase(str) ==
    CASE str = "Dawn" -> "dawn"
      [] str = "NOON" -> "noon"
      [] str = "Dusk" -> "dusk"
      [] str = "Night" -> "night"
      [] OTHER -> str

-----------------------------------------------------------------------------
(* Navigation (app.js 294-550) *)

\* onNavTransitionEnd (app.js 158-164)
onNavTransitionEnd(w) ==
    LET c == w.dom.navContainer \ {"fade", "fade--slow"} IN
    [w EXCEPT !.dom.navContainer = IF "open" \notin c THEN c \cup {"hidden"} ELSE c]

\* onContentTransitionEnd that hides the content whether or not it is open.
onContentTransitionEndAlways(w) ==
    [w EXCEPT !.dom.content = (@ \ {"fade"}) \cup {"hidden"}]

\* onContentTransitionEnd (app.js 170-175)
onContentTransitionEnd(w) ==
    LET c == w.dom.content \ {"fade"} IN
    [w EXCEPT !.dom.content = IF "open" \notin c THEN c \cup {"hidden"} ELSE c]

\* The 'transitionend' listeners of an element that handleTransitionEnd manages:
\* [current |-> the function the Navigation field holds is registered,
\*  orphans |-> registered functions that no field holds any more]
RemoveListener(l) == [l EXCEPT !.current = FALSE]

\* field = a new bound function; addEventListener(field)
AddListener(l) ==
    [current |-> TRUE, orphans |-> l.orphans + (IF l.current THEN 1 ELSE 0)]

\* handleTransitionEnd without the removeEventListener calls.
handleTransitionEndNoRemove(w) ==
    [w EXCEPT !.dom.navTransitionEnd = AddListener(@),
              !.dom.contentTransitionEnd = AddListener(@)]

handleTransitionEnd(w) ==
    [w EXCEPT !.dom.navTransitionEnd = AddListener(RemoveListener(@)),
              !.dom.contentTransitionEnd = AddListener(RemoveListener(@))]

\* The inactivity timers of Navigation:
\* [current |-> the timer whose id this._timeOutId holds is pending,
\*  orphans |-> pending timers whose id the field no longer holds,
\*  delay   |-> the delay the current timer was set with,
\*  armed   |-> (ghost) "none" | "fresh" | "stale": set by resetTimeout, in the
\*              handler that ran last or in an earlier one | "rearmed": set by
\*              the timer's own callback]
ClearInactivityTimeout(t) == [t EXCEPT !.current = FALSE, !.armed = "none"]

\* this._timeOutId = window.setTimeout(onTimeout, TIMEOUT_TIME)
SetInactivityTimeout(t, armed) ==
    [current |-> TRUE, orphans |-> t.orphans + (IF t.current THEN 1 ELSE 0),
     delay |-> TIMEOUT_TIME, armed |-> armed]

\* resetTimeout that sets the new timer and leaves the old one pending.
resetTimeoutNoClear(w) ==
    [w EXCEPT !.timers.inactivity = SetInactivityTimeout(@, "fresh")]

resetTimeout(w) ==
    [w EXCEPT !.timers.inactivity =
        SetInactivityTimeout(ClearInactivityTimeout(@), "fresh")]

\* openNavMenu that leaves the menu button's classes alone.
openNavMenuKeepToggle(w, fade) ==
    LET mobile == hasSmallScreen(w)
        w1 == [w EXCEPT
                 !.dom.navContainer =
                     ((@ \cup {"open"}) \ {"hidden"}) \cup (IF fade THEN {"fade"} ELSE {}),
                 !.dom.content =
                     (@ \ {"open", "hidden"}) \cup (IF fade /\ mobile THEN {"fade"} ELSE {}),
                 !.dom.body = IF mobile THEN @ \cup {"disable-scroll"} ELSE @]
        w2 == IF fade THEN handleTransitionEnd(w1) ELSE w1
    IN  resetTimeout(w2)

openNavMenu(w, fade) ==
    LET mobile == hasSmallScreen(w)
        w1 == [w EXCEPT
                 !.dom.navContainer =
                     ((@ \cup {"open"}) \ {"hidden"}) \cup (IF fade THEN {"fade"} ELSE {}),
                 !.dom.content =
                     (@ \ {"open", "hidden"}) \cup (IF fade /\ mobile THEN {"fade"} ELSE {}),
                 !.dom.body = IF mobile THEN @ \cup {"disable-scroll"} ELSE @]
        w2 == IF fade THEN handleTransitionEnd(w1) ELSE w1
        w3 == resetTimeout(w2)
    IN  [w3 EXCEPT !.dom.navToggle =
            (@ \cup {"nav-toggle--toggled"}) \ {"nav-toggle--highlight"}]

\* closeNavMenu that marks the container 'hidden' at once, fade or not.
closeNavMenuHideAtOnce(w, fade) ==
    LET mobile == hasSmallScreen(w)
        w1 == [w EXCEPT
                 !.dom.navContainer =
                     ((@ \ {"open"}) \cup {"hidden"}) \cup (IF fade THEN {"fade"} ELSE {}),
                 !.dom.content =
                     ((@ \cup {"open"}) \ {"hidden"}) \cup
                     (IF fade /\ mobile THEN {"fade"} ELSE {}),
                 !.dom.body = @ \ {"disable-scroll"}]
        w2 == IF fade THEN handleTransitionEnd(w1) ELSE w1
    IN  [w2 EXCEPT !.dom.navToggle =
            (@ \ {"nav-toggle--toggled"}) \cup {"nav-toggle--highlight"}]

closeNavMenu(w, fade) ==
    LET mobile == hasSmallScreen(w)
        w1 == [w EXCEPT
                 !.dom.navContainer =
                     IF fade THEN ((@ \ {"open"}) \ {"hidden"}) \cup {"fade"}
                     ELSE (@ \ {"open"}) \cup {"hidden"},
                 !.dom.content =
                     ((@ \cup {"open"}) \ {"hidden"}) \cup
                     (IF fade /\ mobile THEN {"fade"} ELSE {}),
                 !.dom.body = @ \ {"disable-scroll"}]
        w2 == IF fade THEN handleTransitionEnd(w1) ELSE w1
    IN  [w2 EXCEPT !.dom.navToggle =
            (@ \ {"nav-toggle--toggled"}) \cup {"nav-toggle--highlight"}]

toggleNavMenu(w, fade) ==
    IF "open" \in w.dom.navContainer THEN closeNavMenu(w, fade) ELSE openNavMenu(w, fade)

\* onTimeout that closes the menu whether or not the pointer is over the hotspot.
onTimeoutCloseAnyway(w) ==
    IF ~hasSmallScreen(w)
    THEN closeNavMenu([w EXCEPT !.dom.navContainer = @ \cup {"fade--slow"}], TRUE)
    ELSE w

\* onTimeout without the test of the screen.
onTimeoutAnyScreen(w) ==
    IF w.nav.isCursorOverNavMenu
    THEN [w EXCEPT !.timers.inactivity = SetInactivityTimeout(@, "rearmed")]
    ELSE closeNavMenu([w EXCEPT !.dom.navContainer = @ \cup {"fade--slow"}], TRUE)

\* The timer callback of resetTimeout (app.js 536-547).
onTimeout(w) ==
    IF ~hasSmallScreen(w)
    THEN IF w.nav.isCursorOverNavMenu
         THEN [w EXCEPT !.timers.inactivity = SetInactivityTimeout(@, "rearmed")]
         ELSE closeNavMenu([w EXCEPT !.dom.navContainer = @ \cup {"fade--slow"}], TRUE)
    ELSE w

\* updateVisibilityState that resets the nav items' classes.
updateVisibilityStateResetItems(w) ==
    LET w1 == [w EXCEPT !.dom.navItems =
                  [i \in DOMAIN @ |-> [@[i] EXCEPT !.classList = {"nav-menu__item"}]]]
    IN  IF hasSmallScreen(w1) THEN closeNavMenu(w1, FALSE) ELSE openNavMenu(w1, FALSE)

\* updateVisibilityState that opens or closes with fade.
updateVisibilityStateFade(w) ==
    IF hasSmallScreen(w) THEN closeNavMenu(w, TRUE) ELSE openNavMenu(w, TRUE)

\* updateVisibilityState (app.js 368-374)
updateVisibilityState(w) ==
    IF hasSmallScreen(w) THEN closeNavMenu(w, FALSE) ELSE openNavMenu(w, FALSE)

\* BuildItems that puts each new item first in the container.
RECURSIVE BuildItemsPrepend(_, _, _)
BuildItemsPrepend(sections, i, items) ==
    IF i > Len(sections) THEN items
    ELSE BuildItemsPrepend(sections, i + 1,
            <<[sectionId |-> sections[i].id,
               text |-> sections[i].nav,
               href |-> <<"#", sections[i].id>>,
               classList |-> {"nav-menu__item"}]>> \o items)

\* The loop of buildNavigation that creates the items (app.js 316-337).
RECURSIVE BuildItems(_, _, _)
BuildItems(sections, i, items) ==
    IF i > Len(sections) THEN items
    ELSE BuildItems(sections, i + 1,
            Append(items, [sectionId |-> sections[i].id,
                           text |-> sections[i].nav,
                           href |-> <<"#", sections[i].id>>,
                           classList |-> {"nav-menu__item"}]))

\* buildNavigation (app.js 313-408); the listeners it installs are the actions.
buildNavigation(w) ==
    LET w1 == [w EXCEPT !.dom.navItems = BuildItems(contentSections, 1, @)]
        w2 == updateVisibilityState(w1)
    IN  IF hasSmallScreen(w2) THEN closeNavMenu(w2, FALSE) ELSE w2

-----------------------------------------------------------------------------
(* focusSection (app.js 570-653); section is a section index, 0 = undefined *)

\* SetFocus that never takes 'focus' away.
SetFocusKeep(classList, on) ==
    IF on THEN classList \cup {"focus"} ELSE classList

SetFocus(classList, on) ==
    IF on THEN classList \cup {"focus"} ELSE classList \ {"focus"}

\* ClearGradient that removes nothing.
ClearGradientNone(list, bodyGradient, i) == <<list, bodyGradient>>

\* for (const className of gradientBg.classList): the list is live, so the
\* iteration goes by position over the list as removals shift it.
RECURSIVE ClearGradient(_, _, _)
ClearGradient(list, bodyGradient, i) ==
    IF i > Len(list) THEN <<list, bodyGradient>>
    ELSE IF IsGradientClass(list[i])
         THEN ClearGradient(RemoveAt(list, i), bodyGradient \ {list[i][2]}, i + 1)
         ELSE ClearGradient(list, bodyGradient, i + 1)

\* removeRotation(r) (app.js 620-626); the timeoutId bound at 635 is undefined.
removeRotation(w, r) ==
    [w EXCEPT !.dom.rotates[r] = @ \ {"rotate-cw", "rotate-ccw"}]

\* The rotation loop (app.js 628-652); r is the '.rotates' element of the
\* first section with the id (document.querySelector).
RECURSIVE RotationLoop(_, _, _, _)
RotationLoop(w, section, delayRotation, i) ==
    IF i > Len(contentSections) THEN w
    ELSE LET r == getSectionWithId(contentSections[i].id, contentSections)
             w1 == IF contentSections[i].id = contentSections[section].id
                   THEN IF delayRotation
                        THEN [w EXCEPT !.timers.rotation[r] = @ + 1]
                        ELSE removeRotation(w, r)
                   ELSE IF RLt(WindowYCenter(w), YCenter(w, i))
                        THEN [w EXCEPT !.dom.rotates[r] = @ \cup {"rotate-ccw"}]
                        ELSE [w EXCEPT !.dom.rotates[r] = @ \cup {"rotate-cw"}]
         IN  RotationLoop(w1, section, delayRotation, i + 1)

\* The gradient switch (app.js 596-612)
SwitchGradient(w, section) ==
    LET cleared == ClearGradient(w.dom.gradientBg, w.dom.bodyGradient, 1)
        name == toLowerCase(contentSections[section].bg)
    IN  [w EXCEPT !.dom.gradientBg = ListAdd(cleared[1], <<GradientPrefix, name>>),
                  !.dom.bodyGradient = cleared[2] \cup {name}]

\* ReadsIdOfUndefined that reads section.id before the loops.
ReadsIdOfUndefinedFirst(w, section) == section = 0

\* section.id is read inside the loops over the sections and over the nav
\* items (app.js 574, 583, 630): with section undefined it is a TypeError as
\* soon as one of the lists has an element.
ReadsIdOfUndefined(w, section) ==
    section = 0 /\ (Len(contentSections) > 0 \/ Len(w.dom.navItems) > 0)

\* focusSection that leaves the menu alone on every screen.
focusSectionNoClose(w, section, useTransitions, delayRotation) ==
    IF ReadsIdOfUndefined(w, section)
    THEN [w EXCEPT !.page = "error"]
    ELSE
    LET sections == w.dom.sections
        items == w.dom.navItems
        w1 == [w EXCEPT
                 !.dom.sections = [i \in DOMAIN sections |->
                     SetFocus(sections[i],
                              contentSections[i].id = contentSections[section].id)],
                 !.dom.navItems = [i \in DOMAIN items |->
                     [items[i] EXCEPT !.classList =
                         SetFocus(@, items[i].sectionId = contentSections[section].id)]]]
        w3 == IF section # 0 THEN SwitchGradient(w1, section) ELSE w1
    IN  RotationLoop(w3, section, delayRotation, 1)

focusSection(w, section, useTransitions, delayRotation) ==
    IF ReadsIdOfUndefined(w, section)
    THEN [w EXCEPT !.page = "error"]  \* section.id of undefined: TypeError
    ELSE
    LET sections == w.dom.sections
        items == w.dom.navItems
        w1 == [w EXCEPT
                 !.dom.sections = [i \in DOMAIN sections |->
                     SetFocus(sections[i],
                              contentSections[i].id = contentSections[section].id)],
                 !.dom.navItems = [i \in DOMAIN items |->
                     [items[i] EXCEPT !.classList =
                         SetFocus(@, items[i].sectionId = contentSections[section].id)]]]
        w2 == IF hasSmallScreen(w1) THEN closeNavMenu(w1, useTransitions) ELSE w1
        w3 == IF section # 0 THEN SwitchGradient(w2, section) ELSE w2
    IN  RotationLoop(w3, section, delayRotation, 1)

-----------------------------------------------------------------------------
(* pageSetup (app.js 658-709) *)

\* --section-transition-time, converted by secondsToMs (scaled, see DefaultSteps)
DefaultDuration == DefaultSteps * STEP

WITHIN_SCREEN_PERCENT == <<1, 2>>

\* ScrollLoop without the break after the first section in view.
RECURSIVE ScrollLoopNoBreak(_, _)
ScrollLoopNoBreak(w, i) ==
    IF i > Len(contentSections) THEN w
    ELSE IF isSectionInView(w, i, WITHIN_SCREEN_PERCENT)
         THEN LET w1 == IF ~w.sm.triggeredScrollEvent
                        THEN focusSection(w, i, TRUE, FALSE)
                        ELSE w
              IN  ScrollLoopNoBreak(w1, i + 1)
         ELSE ScrollLoopNoBreak(w, i + 1)

\* The body of the scroll listener's loop (app.js 692-704).
RECURSIVE ScrollLoop(_, _)
ScrollLoop(w, i) ==
    IF i > Len(contentSections) THEN w
    ELSE IF isSectionInView(w, i, WITHIN_SCREEN_PERCENT)
         THEN LET w1 == IF ~w.sm.triggeredScrollEvent
                        THEN focusSection(w, i, TRUE, FALSE)
                        ELSE w
              IN  [w1 EXCEPT !.sm.triggeredScrollEvent = FALSE]
         ELSE ScrollLoop(w, i + 1)

\* onScroll that opens the menu on every screen.
onScrollOpenAlways(w) == ScrollLoop(openNavMenu(w, TRUE), 1)

\* The scroll listener (app.js 682-705)
onScroll(w) ==
    ScrollLoop(IF ~hasSmallScreen(w) THEN openNavMenu(w, TRUE) ELSE w, 1)

\* onNavItemClick that starts the scroll before it focuses.
onNavItemClickScrollFirst(w, i) ==
    LET section == getSectionWithId(w.dom.navItems[i].sectionId, contentSections) IN
    IF section # 0
    THEN focusSection(scrollTo(w, section, Undefined, TRUE), section, TRUE, TRUE)
    ELSE w

\* The click listener of a nav item (app.js 343-351)
onNavItemClick(w, i) ==
    LET section == getSectionWithId(w.dom.navItems[i].sectionId, contentSections) IN
    IF section # 0
    THEN scrollTo(focusSection(w, section, TRUE, TRUE), section, Undefined, TRUE)
    ELSE w

\* The click listener of window (app.js 387-391); clicks bubble to it.
onWindowClick(w) ==
    IF ~w.nav.isCursorOverNavMenu THEN closeNavMenu(w, TRUE) ELSE w

\* The page before pageSetup runs: the markup, nothing focused, no timers.
Loading(width, height) ==
    [window |-> [innerWidth |-> width, innerHeight |-> height, scrollY |-> I(0),
                 scrollPending |-> FALSE, asked |-> I(0)],
     dom |-> [sections |-> [i \in 1..Len(contentSections) |-> {}],
              rotates |-> [i \in 1..Len(contentSections) |-> {}],
              navItems |-> <<>>,
              navContainer |-> {}, content |-> {}, body |-> {}, navToggle |-> {},
              bodyGradient |-> {}, gradientBg |-> <<>>,
              navTransitionEnd |-> [current |-> FALSE, orphans |-> 0],
              contentTransitionEnd |-> [current |-> FALSE, orphans |-> 0]],
     sm |-> [defaultDuration |-> 0, triggeredScrollEvent |-> FALSE],
     nav |-> [isCursorOverNavMenu |-> FALSE],
     timers |-> [scroll |-> {},
                 inactivity |-> [current |-> FALSE, orphans |-> 0, delay |-> 0,
                                 armed |-> "none"],
                 rotation |-> [i \in 1..Len(contentSections) |-> 0]],
     page |-> "loading",
     hist |-> [events |-> 0, calls |-> 0, op |-> "load", arg |-> 0,
               duration |-> 0, smoothly |-> FALSE, inFlight |-> FALSE,
               focusAtCall |-> {}]]

\* new ScrollManager(scrollDuration), new Navigation(...) (app.js 660-670)
Construct(w) ==
    [w EXCEPT !.sm = [defaultDuration |-> DefaultDuration,
                      triggeredScrollEvent |-> FALSE],
              !.nav = [isCursorOverNavMenu |-> TRUE],
              !.hist.op = "pageSetup"]

\* pageSetup that opens the menu after it has focused the first section.
pageSetupOpenLast(w) ==
    LET w2 == buildNavigation(Construct(w))
        w3 == focusSection(w2, IF Len(contentSections) > 0 THEN 1 ELSE 0, FALSE, FALSE)
        w4 == IF w3.page = "error" THEN w3 ELSE openNavMenu(w3, TRUE)
    IN  IF w4.page = "error" THEN w4 ELSE [w4 EXCEPT !.page = "ready"]

pageSetup(w) ==
    LET w1 == Construct(w)
        w2 == buildNavigation(w1)
        w3 == openNavMenu(w2, TRUE)
        w4 == focusSection(w3, IF Len(contentSections) > 0 THEN 1 ELSE 0, FALSE, FALSE)
    IN  IF w4.page = "error" THEN w4 ELSE [w4 EXCEPT !.page = "ready"]

-----------------------------------------------------------------------------
(* Inputs *)

\* The sections a page is made of (id, data-nav, data-bg).
SectionPool ==
    << [id |-> "intro", nav |-> "Intro", bg |-> "Dawn"],
       [id |-> "about", nav |-> "About", bg |-> "NOON"],
       [id |-> "contact", nav |-> "Contact", bg |-> "Dusk"],
       [id |-> "credits", nav |-> "Credits", bg |-> "Night"] >>

\* The markup of the page under Spec and SpecSM: intro, about, contact.
Document == <<SectionPool[1], SectionPool[2], SectionPool[3]>>

Range(s) == {s[i] : i \in DOMAIN s}

\* Every list of at most k distinct sections of the pool.
RECURSIVE DocumentsUpTo(_)
DocumentsUpTo(k) ==
    IF k = 0 THEN {<<>>}
    ELSE LET shorter == DocumentsUpTo(k - 1)
             longest == {d \in shorter : Len(d) = k - 1}
         IN  shorter \cup
             {Append(p[1], p[2]) :
                 p \in {q \in longest \X Range(SectionPool) : q[2] \notin Range(q[1])}}

Widths == {SmallScreenMaxWidth, SmallScreenMaxWidth + 1}

\* window.innerHeight (app.js 211, 642): 100vh, and the 90vh a mobile browser
\* leaves of the viewport while its toolbar shows (vh is measured with the
\* toolbar retracted).
InnerHeights == {FullHeight - 10, FullHeight}

\* The windows a page is loaded in: a phone with the toolbar showing, a desktop.
Viewports ==
    {[width |-> SmallScreenMaxWidth, height |-> FullHeight - 10],
     [width |-> SmallScreenMaxWidth + 1, height |-> FullHeight]}

\* Offsets a user scrolls to: the top, and two offsets between the first two
\* sections' centres.
UserScrollOffsets == {0, 47, 50}

\* Durations handed to scrollTo directly (SpecSM).
Durations == {Undefined, Num(0), Num(50)}

-----------------------------------------------------------------------------
(* Ghost state *)

FocusedSections(w) == {i \in DOMAIN w.dom.sections : "focus" \in w.dom.sections[i]}

FocusedItems(w) == {i \in DOMAIN w.dom.navItems : "focus" \in w.dom.navItems[i].classList}

\* The world as the handler of a user event finds it, the event counted and
\* noted in the ghost record: op and arg name the event, inFlight tells
\* whether a ScrollManager timer is pending as it arrives.  The handlers of
\* timers and of the events the browser raises leave the record alone.
User(op, arg) ==
    [World EXCEPT !.hist =
        [@ EXCEPT !.events = @ + 1, !.op = op, !.arg = arg,
                  !.duration = 0, !.smoothly = FALSE,
                  !.inFlight = timers.scroll # {}]]

-----------------------------------------------------------------------------
(* Initial states *)

StartFrom(w) ==
    /\ window = w.window
    /\ dom = w.dom
    /\ scrollManager = w.sm
    /\ nav = w.nav
    /\ timers = w.timers
    /\ page = w.page
    /\ hist = w.hist

\* The page after pageSetup() has run on the markup.
Init ==
    /\ contentSections = Document
    /\ \E v \in Viewports : StartFrom(pageSetup(Loading(v.width, v.height)))

\* The same on a wide window of any height.
InitSM ==
    /\ contentSections = Document
    /\ \E height \in InnerHeights :
           StartFrom(pageSetup(Loading(SmallScreenMaxWidth + 1, height)))

\* The page before pageSetup() runs, on any markup.
InitSetup ==
    /\ contentSections \in DocumentsUpTo(MaxDocLen)
    /\ \E v \in Viewports : StartFrom(Loading(v.width, v.height))

-----------------------------------------------------------------------------
(* Events *)

\* pageSetup() at the end of the script
PageSetup ==
    /\ page = "loading"
    /\ Commit(pageSetup(World))

\* A click on the i-th nav item: its listener, then window's.  A hidden
\* menu ('.hidden.nav-menu { visibility: hidden }') takes no clicks.
NavItemClick(i) ==
    /\ page = "ready"
    /\ hist.events < MaxUserEvents
    /\ "hidden" \notin dom.navContainer
    /\ Commit(onWindowClick(onNavItemClick(User("navItemClick", i), i)))

\* A click on the menu button: its listener (app.js 362-364), then window's.
NavToggleClick ==
    /\ page = "ready"
    /\ hist.events < MaxUserEvents
    /\ Commit(onWindowClick(toggleNavMenu(User("navToggleClick", 0), TRUE)))

\* A click anywhere else
WindowClick ==
    /\ page = "ready"
    /\ hist.events < MaxUserEvents
    /\ Commit(onWindowClick(User("windowClick", 0)))

\* mouseover on the hotspot (app.js 379-381)
MouseOver ==
    /\ page = "ready"
    /\ hist.events < MaxUserEvents
    /\ ~nav.isCursorOverNavMenu
    /\ Commit([User("mouseOver", 0) EXCEPT !.nav.isCursorOverNavMenu = TRUE])

\* mouseleave on the hotspot (app.js 382-384)
MouseLeave ==
    /\ page = "ready"
    /\ hist.events < MaxUserEvents
    /\ nav.isCursorOverNavMenu
    /\ Commit([User("mouseLeave", 0) EXCEPT !.nav.isCursorOverNavMenu = FALSE])

\* The window is resized to the given width: updateVisibilityState.
Resize(width) ==
    /\ page = "ready"
    /\ hist.events < MaxUserEvents
    /\ Commit(updateVisibilityState(
           [User("resize", width) EXCEPT !.window.innerWidth = width]))

\* The user scrolls the page (wheel, touch, keyboard) to offset y.  The
\* stylesheet stops it while body has 'disable-scroll' on a small screen.
UserScrollTo(y, bound) ==
    /\ page = "ready"
    /\ hist.events < bound
    /\ I(y) # window.scrollY
    /\ ~("disable-scroll" \in dom.body /\ hasSmallScreen(World))
    /\ Commit([User("userScroll", y) EXCEPT
                  !.window.scrollY = I(y),
                  !.window.scrollPending = TRUE])

UserScroll(y) == UserScrollTo(y, MaxUserEvents)

\* The browser dispatches the pending scroll event.
ScrollEvent ==
    /\ page = "ready"
    /\ window.scrollPending
    /\ Commit(onScroll([World EXCEPT !.window.scrollPending = FALSE]))

\* A ScrollManager timer fires (app.js 279-281).
ScrollTick(tm) ==
    /\ page = "ready"
    /\ tm \in timers.scroll
    /\ LET w == [World EXCEPT !.timers.scroll = @ \ {tm}]
       IN  Commit(scrollToPosition(w, tm.from, tm.to, tm.timeSinceStart, tm.speed,
                                   tm.smoothly, [elapsed |-> tm.elapsed, call |-> tm.call]))

\* An inactivity timer fires.
InactivityTimeout(current) ==
    /\ page = "ready"
    /\ IF current THEN timers.inactivity.current ELSE timers.inactivity.orphans > 0
    /\ LET w == [World EXCEPT
                    !.timers.inactivity =
                        IF current THEN ClearInactivityTimeout(@)
                        ELSE [@ EXCEPT !.orphans = @ - 1]]
       IN  Commit(onTimeout(w))

\* 'transitionend' reaches the nav container (its own fade, or a nav link's
\* transition bubbling up): every registered listener runs.  A run that
\* changes no class is a stuttering step and is left out.
NavTransitionEnd ==
    /\ page = "ready"
    /\ dom.navTransitionEnd.current \/ dom.navTransitionEnd.orphans > 0
    /\ onNavTransitionEnd(World).dom # dom
    /\ Commit(onNavTransitionEnd(World))

\* 'transitionend' reaches the main content.
ContentTransitionEnd ==
    /\ page = "ready"
    /\ dom.contentTransitionEnd.current \/ dom.contentTransitionEnd.orphans > 0
    /\ onContentTransitionEnd(World).dom # dom
    /\ Commit(onContentTransitionEnd(World))

\* A delayed removeRotation of focusSection fires (app.js 635).
RotationTimeout(r) ==
    /\ page = "ready"
    /\ timers.rotation[r] > 0
    /\ Commit(removeRotation(
           [World EXCEPT !.timers.rotation[r] = @ - 1], r))

\* scrollManager.scrollTo(target, duration, smoothly), called directly.
ScrollToCall(target, duration, smoothly) ==
    /\ page = "ready"
    /\ hist.events < MaxCalls
    /\ LET w == [User("scrollTo", target) EXCEPT
                    !.hist.duration = IF duration.undefined
                                      THEN scrollManager.defaultDuration
                                      ELSE duration.value,
                    !.hist.smoothly = smoothly]
       IN  Commit(scrollTo(w, target, duration, smoothly))

\* scrollManager.interruptScroll(): ScrollManager (app.js 233-283) defines
\* scrollTo and _scrollToPosition only, so the call is a TypeError and
\* nothing of the manager changes.
InterruptScrollCall ==
    /\ page = "ready"
    /\ hist.events < MaxCalls
    /\ Commit(User("interruptScroll", 0))

-----------------------------------------------------------------------------
(* Specifications *)

Next ==
    \/ \E i \in DOMAIN dom.navItems : NavItemClick(i)
    \/ NavToggleClick
    \/ WindowClick
    \/ MouseOver
    \/ MouseLeave
    \/ \E width \in Widths : Resize(width)
    \/ \E y \in UserScrollOffsets : UserScroll(y)
    \/ ScrollEvent
    \/ \E tm \in timers.scroll : ScrollTick(tm)
    \/ \E current \in BOOLEAN : InactivityTimeout(current)
    \/ NavTransitionEnd
    \/ ContentTransitionEnd
    \/ \E r \in DOMAIN timers.rotation : RotationTimeout(r)

\* The page under its events.
Spec == Init /\ [][Next]_vars

NextSM ==
    \/ \E target \in Indices, duration \in Durations, smoothly \in BOOLEAN :
           ScrollToCall(target, duration, smoothly)
    \/ InterruptScrollCall
    \/ \E tm \in timers.scroll : ScrollTick(tm)
    \/ \E y \in UserScrollOffsets : UserScrollTo(y, MaxCalls)
    \/ ScrollEvent

\* The ScrollManager of the page, called directly.
SpecSM == InitSM /\ [][NextSM]_vars

\* pageSetup over any markup.
SpecSetup == InitSetup /\ [][PageSetup]_vars

\* SpecSM with every pending ScrollManager timer fired in the end (setTimeout).
FairSpecSM == SpecSM /\ WF_vars(\E tm \in timers.scroll : ScrollTick(tm))

\* Spec with the pending inactivity timer fired in the end (window.setTimeout).
FairSpec == Spec /\ WF_vars(InactivityTimeout(TRUE))

-----------------------------------------------------------------------------
(* isSectionInView over the positions of a section *)

\* Values of withinScreenPercent ("normalized value between 0 and 1").
ViewThresholds == {I(0), Rat(1, 4), WITHIN_SCREEN_PERCENT, I(1)}

\* The scroll offsets of the page in a window h high.
ViewOffsets(h) == 0..MaxScrollY(h)

\* The page set up in a window that shows it at any scroll offset (the browser
\* restores the offset of a reloaded page).
InitView ==
    /\ contentSections = Document
    /\ \E v \in Viewports :
           \E w \in {pageSetup(Loading(v.width, v.height))} :
               \E y \in ViewOffsets(v.height) :
                   StartFrom([w EXCEPT !.window.scrollY = I(y)])

\* The sections are put at a second position in the window: the page is at
\* offset y.  (ghost) hist.arg keeps the offset of the first position.
Place(y) ==
    /\ page = "ready"
    /\ hist.op = "pageSetup"
    /\ I(y) # window.scrollY
    /\ Commit([World EXCEPT !.window.scrollY = I(y),
                            !.hist.op = "place",
                            !.hist.arg = window.scrollY[1]])

\* Two positions of every section, in windows of both heights.
SpecView ==
    InitView /\ [][\E y \in ViewOffsets(window.innerHeight) : Place(y)]_vars

-----------------------------------------------------------------------------
(* The earlier revision (app.js 1-139): focusSection by id, buildNavigation *)
(* and pageSetup without ScrollManager and Navigation.                      *)

\* Ids a focus is asked for: those of the pool and one that no section has.
RequestedIds == <<"intro", "about", "contact", "credits", "missing">>

\* Array.from(navItems).find(item => item.dataset.sectionId === sectionId):
\* the index of the first such item, 0 when there is none.
RECURSIVE FindItemFrom(_, _, _)
FindItemFrom(items, sectionId, i) ==
    IF i > Len(items) THEN 0
    ELSE IF items[i].sectionId = sectionId THEN i
    ELSE FindItemFrom(items, sectionId, i + 1)

\* focusSection(sectionId, contentSections, navItems, ...) (app.js 15-42)
focusSectionEarlier(w, sectionId) ==
    LET sections == w.dom.sections
        items == w.dom.navItems
        section == FindFrom(contentSections, sectionId, 1)
        navItem == FindItemFrom(items, sectionId, 1)
    IN  [w EXCEPT
           !.dom.sections = [i \in DOMAIN sections |->
               IF i = section THEN (sections[i] \ {"focus"}) \cup {"focus"}
               ELSE sections[i] \ {"focus"}],
           !.dom.navItems = [i \in DOMAIN items |->
               [items[i] EXCEPT !.classList =
                   IF i = navItem THEN (@ \ {"focus"}) \cup {"focus"}
                   ELSE @ \ {"focus"}]]]

\* buildNavigation (app.js 68-118); the listeners it installs are the actions.
buildNavigationEarlier(w) ==
    [w EXCEPT !.dom.navItems = BuildItems(contentSections, 1, @)]

\* pageSetup (app.js 123-137)
pageSetupEarlier(w) ==
    LET w1 == buildNavigationEarlier([w EXCEPT !.hist.op = "pageSetup"])
        w2 == IF Len(contentSections) > 0
              THEN focusSectionEarlier(w1, contentSections[1].id)
              ELSE w1
    IN  [w2 EXCEPT !.page = "ready"]

\* pageSetup() at the end of the script (app.js 139)
PageSetupEarlier ==
    /\ page = "loading"
    /\ Commit(pageSetupEarlier(World))

\* A click on the i-th nav item: focusSection bound to its id (app.js 99-101).
ItemClickEarlier(i) ==
    /\ page = "ready"
    /\ hist.events < MaxUserEvents
    /\ Commit(focusSectionEarlier(User("navItemClick", i), dom.navItems[i].sectionId))

\* A click on the menu button (app.js 111-113)
ToggleClickEarlier ==
    /\ page = "ready"
    /\ hist.events < MaxUserEvents
    /\ Commit([User("navToggleClick", 0) EXCEPT
                  !.dom.navContainer =
                      IF "hidden" \in @ THEN @ \ {"hidden"} ELSE @ \cup {"hidden"}])

\* focusSection called with the k-th of the requested ids.
FocusCallEarlier(k) ==
    /\ page = "ready"
    /\ hist.events < MaxCalls
    /\ Commit(focusSectionEarlier(User("focusSection", k), RequestedIds[k]))

NextEarlier ==
    \/ PageSetupEarlier
    \/ \E i \in DOMAIN dom.navItems : ItemClickEarlier(i)
    \/ ToggleClickEarlier
    \/ \E k \in DOMAIN RequestedIds : FocusCallEarlier(k)

\* The earlier revision over any markup.
SpecEarlier == InitSetup /\ [][NextEarlier]_vars

-----------------------------------------------------------------------------
(* Properties *)

Focus == FocusedSections(World)

ItemFocus == FocusedItems(World)

\* Section i alone is focused, and so are exactly the nav items of its id.
FocusIs(i) ==
    /\ Focus = {i}
    /\ ItemFocus # {}
    /\ ItemFocus = {k \in DOMAIN dom.navItems :
                       dom.navItems[k].sectionId = contentSections[i].id}

InView(i) == isSectionInView(World, i, WITHIN_SCREEN_PERCENT)

\* The first section in view, in document order.
FirstInView == CHOOSE i \in Indices : InView(i) /\ \A j \in 1..(i - 1) : ~InView(j)

\* What the browser makes of a scroll offset asked of it.
Clamped(y) == ClampScroll(window.innerHeight, y)

\* C1: after page setup and any clicks, scroll events and resizes, exactly one
\* section carries 'focus', exactly one nav item carries 'focus', and the
\* item's section id is the focused section's id.
C1_OneFocusedPair ==
    /\ Cardinality(Focus) = 1
    /\ Cardinality(ItemFocus) = 1
    /\ \A i \in Focus, k \in ItemFocus :
           dom.navItems[k].sectionId = contentSections[i].id

\* Reached: a nav-item click focused the third section, its scroll event was
\* handled, then the window was resized.
C1_Witness ==
    /\ hist.op = "resize"
    /\ hist.events = MaxUserEvents
    /\ hist.calls = 1
    /\ FocusIs(3)

\* C2: a click on the nav item of section S leaves S and its item alone
\* focused, S being focused already as ScrollManager.scrollTo is entered,
\* and starts one smooth animation from the current offset to S's top with the
\* default duration, whose first step writes the current offset.
C2_ClickFocusesThenScrolls ==
    [][\A i \in DOMAIN dom.navItems :
          (hist'.op = "navItemClick" /\ hist'.arg = i /\ NavItemClick(i)) =>
              LET S == getSectionWithId(dom.navItems[i].sectionId, contentSections)
                  speed == Rat(1, DefaultDuration)
              IN  /\ S # 0
                  /\ \A j \in Indices : j = S => FocusIs(j)'
                  /\ hist'.focusAtCall = {S}
                  /\ hist'.calls = hist.calls + 1
                  /\ window'.asked = window.scrollY
                  /\ window'.scrollY = window.scrollY
                  /\ timers'.scroll =
                         {[from |-> window.scrollY, to |-> I(OffsetTop(S)),
                           timeSinceStart |-> RMul(speed, I(STEP)), speed |-> speed,
                           smoothly |-> TRUE, isTimeOutId |-> TRUE,
                           elapsed |-> STEP, call |-> hist'.calls]}]_vars

\* Reached: the handler of a click on the third item has just returned.
C2_Witness ==
    /\ hist.op = "navItemClick"
    /\ hist.arg = 3
    /\ hist.focusAtCall = {3}
    /\ FocusIs(3)
    /\ \E tm \in timers.scroll :
           /\ tm.elapsed = STEP
           /\ tm.to = I(OffsetTop(3))
           /\ tm.speed = Rat(1, DefaultDuration)

\* C3: a scroll event handled while triggeredScrollEvent is false and some
\* section is in view leaves the first section in view, in document order,
\* focused.
C3_ScrollFocusesFirstInView ==
    [][(/\ window.scrollPending
        /\ ~scrollManager.triggeredScrollEvent
        /\ \E i \in Indices : InView(i)
        /\ ScrollEvent)
       => \A i \in Indices : i = FirstInView => FocusIs(i)']_vars

\* Reached: the user scrolled from the second section's range back to an
\* offset where the first two sections are both in view, no scrollTo was ever
\* called, and the scroll event was handled.
C3_Witness ==
    /\ hist.calls = 0
    /\ hist.op = "userScroll"
    /\ hist.arg = 47
    /\ hist.events = 2
    /\ ~window.scrollPending
    /\ window.scrollY = I(47)
    /\ InView(1)
    /\ InView(2)
    /\ FocusIs(1)

\* C4: a scroll event handled while triggeredScrollEvent is true leaves the
\* focused section and nav item as they were and leaves the flag false,
\* whatever the scroll position.
C4_FlagConsumedEverywhere ==
    [][(scrollManager.triggeredScrollEvent /\ ScrollEvent)
       => /\ Focus' = Focus
          /\ ItemFocus' = ItemFocus
          /\ ~scrollManager'.triggeredScrollEvent]_vars

\* C5: at most one ScrollManager timer is pending, and it belongs to the
\* latest scrollTo call: no step of a superseded animation is left to run.
C5_OneTimerOfLatestCall ==
    /\ Cardinality(timers.scroll) <= 1
    /\ \A tm \in timers.scroll : tm.call = hist.calls /\ tm.isTimeOutId

\* Reached: a second scrollTo arrived while the first animation was in
\* flight, and the second animation has taken a timer step.
C5_Witness ==
    /\ hist.op = "scrollTo"
    /\ hist.calls = 2
    /\ hist.inFlight
    /\ hist.duration > 0
    /\ \E tm \in timers.scroll : tm.call = 2 /\ tm.elapsed > STEP

\* C6: under fair timers an animation that no later scrollTo supersedes ends
\* (no timer is left pending), and the step that ends an animation hands the
\* target's top offset to window.scrollTo, which leaves the page at that
\* offset as far as the document scrolls.
C6_AnimationTerminates ==
    /\ [][\A tm \in timers.scroll :
              (timers'.scroll = {} /\ ScrollTick(tm))
              => /\ window'.asked = tm.to
                 /\ window'.scrollY = Clamped(tm.to)]_vars
    /\ \A c \in 1..MaxCalls :
           (\E tm \in timers.scroll : tm.call = c)
           ~> (hist.calls > c \/ timers.scroll = {})

\* Reached: the animation of the last call, to the second section, has ended.
C6_Witness ==
    /\ hist.op = "scrollTo"
    /\ hist.duration > 0
    /\ hist.arg = 2
    /\ timers.scroll = {}
    /\ window.asked = I(OffsetTop(2))
    /\ window.scrollY = I(OffsetTop(2))

\* from + (to - from) * (elapsed / D)
Linear(from, to, elapsed, D) == RAdd(from, RMul(RSub(to, from), Rat(elapsed, D)))

\* C7: a linear animation of duration D from 'from' to 'to' writes 'from' in
\* the call and from + (to - from) * (e / D) at the step e ms after the call
\* while e <= D; the target is written at no step before D, at every step
\* from D on, and the last step comes no later than D + STEP.
C7_LinearSteps ==
    [][/\ \A target \in Indices, duration \in Durations :
              (/\ hist'.calls = hist.calls + 1
               /\ hist'.duration > 0
               /\ ScrollToCall(target, duration, FALSE))
              => /\ window'.asked = window.scrollY
                 /\ window'.scrollY = window.scrollY
       /\ \A tm \in timers.scroll :
              (~tm.smoothly /\ tm.from # tm.to /\ ScrollTick(tm))
              => LET D == tm.speed[2] IN
                 /\ tm.speed = Rat(1, D)
                 /\ tm.elapsed <= D + STEP
                 /\ window'.scrollY = Clamped(window'.asked)
                 /\ tm.elapsed <= D
                        => window'.asked = Linear(tm.from, tm.to, tm.elapsed, D)
                 /\ tm.elapsed < D
                        => window'.asked # tm.to /\ timers'.scroll # {}
                 /\ tm.elapsed >= D => window'.asked = tm.to]_vars

\* Reached: the first timer step of a linear animation of 50 ms has run.
C7_Witness ==
    \E tm \in timers.scroll :
        /\ ~tm.smoothly
        /\ tm.from # tm.to
        /\ tm.speed = Rat(1, 50)
        /\ tm.elapsed = 2 * STEP
        /\ window.asked = Linear(tm.from, tm.to, STEP, 50)
        /\ window.asked # tm.from

\* C8: scrollTo with duration 0 sets triggeredScrollEvent, hands the target's
\* top offset to window.scrollTo in the call and leaves no timer pending, an
\* earlier animation's included.
C8_ZeroDurationJumps ==
    [][\A target \in Indices, smoothly \in BOOLEAN :
          (hist'.calls = hist.calls + 1 /\ ScrollToCall(target, Num(0), smoothly))
          => /\ scrollManager'.triggeredScrollEvent
             /\ window'.asked = I(OffsetTop(target))
             /\ window'.scrollY = Clamped(I(OffsetTop(target)))
             /\ timers'.scroll = {}]_vars

\* Reached: scrollTo(second section, 0) was called with an animation in flight.
C8_Witness ==
    /\ hist.op = "scrollTo"
    /\ hist.duration = 0
    /\ hist.inFlight
    /\ hist.arg = 2
    /\ scrollManager.triggeredScrollEvent
    /\ timers.scroll = {}
    /\ window.scrollY = I(OffsetTop(2))

\* C9: interruptScroll(), called while an animation is in flight, cancels the
\* pending step and leaves the scroll position unchanged.
C9_InterruptCancels ==
    [][(timers.scroll # {} /\ InterruptScrollCall)
       => timers'.scroll = {} /\ window'.scrollY = window.scrollY]_vars

\* C10: after pageSetup the nav container holds one item per section, in the
\* sections' order, the i-th with the i-th section's id as data-section-id,
\* '#' + id as link and the section's data-nav as label.
C10_ItemsMirrorSections ==
    page = "ready" =>
        /\ Len(dom.navItems) = Len(contentSections)
        /\ \A i \in Indices :
               /\ dom.navItems[i].sectionId = contentSections[i].id
               /\ dom.navItems[i].href = <<"#", contentSections[i].id>>
               /\ dom.navItems[i].text = contentSections[i].nav

\* Reached: navigation built over three sections in an order of their own.
C10_Witness ==
    /\ page = "ready"
    /\ Len(dom.navItems) = 3
    /\ contentSections[1].id = "contact"
    /\ dom.navItems[1].text = "Contact"
    /\ dom.navItems[3].sectionId = "intro"

-----------------------------------------------------------------------------
(* Navigation menu: visibility and fades *)

MenuOpen == "open" \in dom.navContainer

Small == hasSmallScreen(World)

\* C11: on a small screen, opening the menu with fade (a click on the menu
\* button that finds it closed) adds 'disable-scroll' to body and takes 'open'
\* from the main content at once and leaves it not 'hidden'; the content gets
\* 'hidden' only in a run of its transitionend handler that finds the menu open.
C11_ContentHiddenAfterFade ==
    [][/\ (/\ Small
            /\ ~MenuOpen
            /\ nav.isCursorOverNavMenu
            /\ hist'.op = "navToggleClick"
            /\ hist'.events = hist.events + 1
            /\ NavToggleClick)
           => /\ "disable-scroll" \in dom'.body
              /\ "open" \in dom'.navContainer
              /\ "open" \notin dom'.content
              /\ "hidden" \notin dom'.content
              /\ "fade" \in dom'.content
              /\ dom'.contentTransitionEnd.current
       /\ (Small /\ "hidden" \notin dom.content /\ "hidden" \in dom'.content)
           => MenuOpen /\ ContentTransitionEnd]_vars

\* Reached: on a small screen the menu button opened the menu and the content's
\* handler has run since: the content is hidden, the menu still open.
C11_Witness ==
    /\ Small
    /\ hist.op = "navToggleClick"
    /\ hist.events = 1
    /\ MenuOpen
    /\ "disable-scroll" \in dom.body
    /\ "hidden" \in dom.content
    /\ "fade" \notin dom.content

\* C12: at every width of 960px or more no step adds 'disable-scroll' to body
\* (only openNavMenu adds it).
C12_NoScrollLockFrom960 ==
    [][(/\ window'.innerWidth >= SmallScreenMaxWidth
        /\ "disable-scroll" \notin dom.body)
       => "disable-scroll" \notin dom'.body]_vars

\* A step whose last Navigation call is closeNavMenu with fade: a click on the
\* menu button that closes, a click outside the hotspot, a focus on a small
\* screen, the inactivity timer closing.
ClosesWithFade ==
    \/ /\ MenuOpen \/ ~nav.isCursorOverNavMenu
       /\ hist'.op = "navToggleClick"
       /\ NavToggleClick
    \/ /\ ~nav.isCursorOverNavMenu
       /\ hist'.op = "windowClick"
       /\ WindowClick
    \/ /\ Small \/ ~nav.isCursorOverNavMenu
       /\ hist'.op = "navItemClick"
       /\ \E i \in DOMAIN dom.navItems : hist'.arg = i /\ NavItemClick(i)
    \/ /\ ~Small
       /\ ~nav.isCursorOverNavMenu
       /\ InactivityTimeout(TRUE)
    \/ /\ Small
       /\ window.scrollPending
       /\ ~scrollManager.triggeredScrollEvent
       /\ \E i \in Indices : InView(i)
       /\ ScrollEvent

\* C13: a step that closes the menu with fade leaves the container without
\* 'hidden'; 'hidden' comes to the container only in a run of its transitionend
\* handler or in a close without fade; a run of the handler leaves the container
\* 'hidden' exactly if the menu is not open; a close without fade (a resize to
\* a small screen) leaves it 'hidden' at once.
C13_NavHiddenAfterFade ==
    [][/\ ClosesWithFade
           => /\ "hidden" \notin dom'.navContainer
              /\ "open" \notin dom'.navContainer
              /\ "fade" \in dom'.navContainer
              /\ dom'.navTransitionEnd.current
       /\ ("hidden" \notin dom.navContainer /\ "hidden" \in dom'.navContainer)
           => \/ ~MenuOpen /\ NavTransitionEnd
              \/ \E width \in Widths :
                     width <= SmallScreenMaxWidth /\ hist'.arg = width /\ Resize(width)
       /\ (dom'.navContainer # dom.navContainer /\ NavTransitionEnd)
           => ("hidden" \in dom'.navContainer <=> ~MenuOpen)
       /\ \A width \in Widths :
              (/\ width <= SmallScreenMaxWidth
               /\ hist'.op = "resize"
               /\ hist'.arg = width
               /\ Resize(width))
              => "hidden" \in dom'.navContainer /\ "open" \notin dom'.navContainer]_vars

\* Reached: on a large screen the menu button closed the menu with fade and the
\* container's handler has run since.
C13_Witness ==
    /\ ~Small
    /\ hist.op = "navToggleClick"
    /\ hist.events = 1
    /\ ~MenuOpen
    /\ "hidden" \in dom.navContainer
    /\ "fade" \notin dom.navContainer

\* C14: the nav container and the main content each have at most one
\* transitionend handler registered, the one handleTransitionEnd stored last:
\* none of an earlier fade is left to run.
C14_OneFadeCallback ==
    /\ dom.navTransitionEnd.orphans = 0
    /\ dom.contentTransitionEnd.orphans = 0

\* Reached: on a small screen two clicks on the menu button, an open with fade
\* and a close with fade.
C14_Witness ==
    /\ Small
    /\ hist.op = "navToggleClick"
    /\ hist.events = 2
    /\ ~MenuOpen
    /\ "fade" \in dom.navContainer
    /\ "fade" \in dom.content
    /\ dom.navTransitionEnd.current
    /\ dom.contentTransitionEnd.current

\* C15: once buildNavigation has run, the menu button has 'nav-toggle--toggled'
\* exactly if the container has 'open', and 'nav-toggle--highlight' exactly if
\* it has not.
C15_ToggleMirrorsOpen ==
    page = "ready" =>
        /\ "nav-toggle--toggled" \in dom.navToggle <=> MenuOpen
        /\ "nav-toggle--highlight" \in dom.navToggle <=> ~MenuOpen

\* Reached: the menu was closed by the inactivity timer and opened again by a
\* scroll event.
C15_Witness ==
    /\ ~Small
    /\ hist.events = MaxUserEvents
    /\ hist.op = "userScroll"
    /\ "fade--slow" \in dom.navContainer
    /\ MenuOpen
    /\ "nav-toggle--toggled" \in dom.navToggle
    /\ "nav-toggle--highlight" \notin dom.navToggle

-----------------------------------------------------------------------------
(* Navigation menu: the inactivity countdown *)

\* The one pending inactivity timer, set with the full period by the given party.
Countdown(armed) ==
    [current |-> TRUE, orphans |-> 0, delay |-> TIMEOUT_TIME, armed |-> armed]

\* C16: on a large screen with the pointer off the hotspot the countdown that
\* was started last is the only inactivity timer pending and runs the full
\* period; its expiry closes the menu (with the slow fade), and no other step
\* than that expiry closes the menu while no user event arrives.
C16_InactivityCloses ==
    [][/\ timers'.inactivity.orphans = 0
       /\ timers'.inactivity.current => timers'.inactivity.delay = TIMEOUT_TIME
       /\ (/\ ~Small
            /\ ~nav.isCursorOverNavMenu
            /\ InactivityTimeout(TRUE))
           => /\ "open" \notin dom'.navContainer
              /\ {"fade", "fade--slow"} \subseteq dom'.navContainer
              /\ "nav-toggle--highlight" \in dom'.navToggle
              /\ ~timers'.inactivity.current
       /\ (/\ ~Small
            /\ MenuOpen
            /\ "open" \notin dom'.navContainer
            /\ hist'.events = hist.events)
           => ~nav.isCursorOverNavMenu /\ InactivityTimeout(TRUE)]_vars

\* Reached: on a large screen the pointer left the hotspot, the menu was opened
\* again by the menu button, and the countdown that open started has closed it.
C16_Witness ==
    /\ ~Small
    /\ hist.events = 2
    /\ hist.op = "navToggleClick"
    /\ ~nav.isCursorOverNavMenu
    /\ ~MenuOpen
    /\ "fade--slow" \in dom.navContainer
    /\ ~timers.inactivity.current

\* C17 (as claimed): an expiry that finds the pointer over the hotspot leaves
\* the menu as it is and leaves a countdown of the full period pending, on any
\* screen.
C17_ExpiryOverHotspotRearms ==
    [][\A current \in BOOLEAN :
          (nav.isCursorOverNavMenu /\ InactivityTimeout(current))
          => /\ dom'.navContainer = dom.navContainer
             /\ timers'.inactivity.current
             /\ timers'.inactivity.delay = TIMEOUT_TIME]_vars

\* C17 (amended): an expiry that finds the pointer over the hotspot changes no
\* class on any screen; on a large screen it leaves a countdown of the full
\* period pending, set by the callback itself, and on a small screen none.
C17_ExpiryOverHotspotKeepsMenu ==
    [][\A current \in BOOLEAN :
          (nav.isCursorOverNavMenu /\ InactivityTimeout(current))
          => /\ dom' = dom
             /\ ~Small => timers'.inactivity = Countdown("rearmed")
             /\ Small => ~timers'.inactivity.current]_vars

\* Reached: on a large screen, the pointer over the hotspot, the countdown
\* expired and its callback set the pending one; the menu is open.
C17_Witness ==
    /\ ~Small
    /\ nav.isCursorOverNavMenu
    /\ MenuOpen
    /\ timers.inactivity = Countdown("rearmed")

\* C18: on a large screen, as long as no user event has been delivered since
\* the page loaded, the menu that is open will be closed.
C18_IdleMenuCloses ==
    (~Small /\ hist.events = 0 /\ MenuOpen) ~> (hist.events > 0 \/ ~MenuOpen)

\* C19 (as claimed): on a small screen an expiry of the inactivity timer
\* changes nothing, and every step that takes the menu from open to closed
\* is a click on the menu button.
C19_OnlyToggleClosesOnSmall ==
    [][/\ \A current \in BOOLEAN :
              (Small /\ InactivityTimeout(current)) => dom' = dom
       /\ (/\ Small
            /\ window'.innerWidth <= SmallScreenMaxWidth
            /\ MenuOpen
            /\ "open" \notin dom'.navContainer)
           => /\ hist'.events = hist.events + 1
              /\ hist'.op = "navToggleClick"]_vars

\* C19 (amended): on a small screen an expiry of the inactivity timer changes
\* nothing and sets no timer, and every step that takes the menu from open to
\* closed is a click on the menu button, a click on a nav item, a click with
\* the pointer off the hotspot, a resize, or a scroll event that focuses a
\* section.
C19_SmallScreenClosers ==
    [][/\ \A current \in BOOLEAN :
              (Small /\ InactivityTimeout(current))
              => dom' = dom /\ ~timers'.inactivity.current
       /\ (/\ Small
            /\ window'.innerWidth <= SmallScreenMaxWidth
            /\ MenuOpen
            /\ "open" \notin dom'.navContainer)
           => \/ /\ hist'.events = hist.events + 1
                 /\ hist'.op \in {"navToggleClick", "navItemClick", "resize"}
              \/ /\ hist'.events = hist.events + 1
                 /\ hist'.op = "windowClick"
                 /\ ~nav.isCursorOverNavMenu
              \/ /\ ~scrollManager.triggeredScrollEvent
                 /\ ScrollEvent]_vars

\* Reached: on a small screen the menu button opened the menu, the pointer left
\* the hotspot, the countdown expired, and the menu is still open.
C19_Witness ==
    /\ Small
    /\ hist.events = 2
    /\ hist.op = "mouseLeave"
    /\ ~nav.isCursorOverNavMenu
    /\ MenuOpen
    /\ ~timers.inactivity.current

\* A step whose handler calls openNavMenu or focusSection: a click on a nav
\* item, a click on the menu button that opens, a resize to a large screen, a
\* scroll event that opens (large screen) or focuses.
OpensOrFocuses ==
    \/ /\ hist'.op = "navItemClick"
       /\ \E i \in DOMAIN dom.navItems : hist'.arg = i /\ NavItemClick(i)
    \/ /\ ~MenuOpen
       /\ hist'.op = "navToggleClick"
       /\ NavToggleClick
    \/ /\ hist'.op = "resize"
       /\ \E width \in Widths :
              width > SmallScreenMaxWidth /\ hist'.arg = width /\ Resize(width)
    \/ /\ window.scrollPending
       /\ \/ ~Small
          \/ ~scrollManager.triggeredScrollEvent /\ \E i \in Indices : InView(i)
       /\ ScrollEvent

\* C20: after every step that calls openNavMenu or focusSection the one pending
\* inactivity timer is the one that step set, with the full period.
C20_OpenAndFocusRestart ==
    [][OpensOrFocuses => timers'.inactivity = Countdown("fresh")]_vars

-----------------------------------------------------------------------------
(* Resize, focus and the effects of focus *)

\* The classes of the gradient element that name a scheme.
Schemes == {dom.gradientBg[k] : k \in {j \in DOMAIN dom.gradientBg :
                                          IsGradientClass(dom.gradientBg[j])}}

\* The rotation classes of the i-th section's rotating element.
Rotation(i) == dom.rotates[i] \cap {"rotate-cw", "rotate-ccw"}

\* The menu is closed: the state closeNavMenu leaves.
MenuClosed ==
    /\ "open" \notin dom.navContainer
    /\ "open" \in dom.content
    /\ "disable-scroll" \notin dom.body

\* A step of Resize: the one user event noted as "resize".
ResizeStep == hist'.op = "resize" /\ hist'.events = hist.events + 1

\* A step of NavItemClick: the one user event noted as "navItemClick".
NavItemClickStep == hist'.op = "navItemClick" /\ hist'.events = hist.events + 1

\* A step of ScrollEvent: the one step that takes the pending scroll event.
ScrollEventStep == window.scrollPending /\ ~window'.scrollPending

\* C21: a resize leaves the focused section, the focused nav item and the
\* gradient scheme as they were: of the page's elements it changes only the
\* classes of the menu, the content, the body and the menu button.
C21_ResizeKeepsFocus ==
    [][ResizeStep
       => /\ Focus' = Focus
          /\ ItemFocus' = ItemFocus
          /\ dom'.sections = dom.sections
          /\ dom'.navItems = dom.navItems
          /\ dom'.gradientBg = dom.gradientBg
          /\ dom'.bodyGradient = dom.bodyGradient
          /\ dom'.rotates = dom.rotates
          /\ window'.scrollY = window.scrollY
          /\ timers'.scroll = timers.scroll]_vars

\* Reached: the second section was focused by a click on its nav item, then
\* the window was resized across the breakpoint.
C21_Witness ==
    /\ hist.op = "resize"
    /\ hist.arg = SmallScreenMaxWidth
    /\ hist.events = 2
    /\ hist.calls = 1
    /\ FocusIs(2)
    /\ Schemes = {<<GradientPrefix, "noon">>}

\* C22: a step that runs focusSection on a small screen leaves the menu closed
\* (container without 'open', content with 'open', body without
\* 'disable-scroll'); on a large screen focusSection leaves the menu open or
\* closed as it found it (in the scroll listener: open, as openNavMenu left it).
C22_FocusClosesOnSmall ==
    [][/\ NavItemClickStep
              => /\ Small => MenuClosed'
                 /\ (~Small /\ nav.isCursorOverNavMenu)
                        => /\ dom'.navContainer = dom.navContainer
                           /\ dom'.content = dom.content
                           /\ dom'.body = dom.body
       /\ (/\ ScrollEventStep
            /\ ~scrollManager.triggeredScrollEvent
            /\ \E i \in Indices : InView(i))
           => /\ Small => MenuClosed'
              /\ ~Small => "open" \in dom'.navContainer]_vars

\* Reached: on a small screen the menu button opened the menu (the content's
\* handler hid the content), then a click on the third nav item focused its
\* section: the menu is closed and the content shown.
C22_Witness ==
    /\ Small
    /\ hist.op = "navItemClick"
    /\ hist.arg = 3
    /\ hist.events = 2
    /\ FocusIs(3)
    /\ MenuClosed
    /\ "hidden" \notin dom.content
    /\ dom.navToggle = {"nav-toggle--highlight"}

\* C23: once the page is set up, the gradient element has exactly one
\* 'gradient-bg--' class and the body exactly one scheme, the one configured on
\* the focused section (its data-bg in lower case).
C23_OneGradientOfFocus ==
    page = "ready" =>
        \A i \in Focus :
            /\ Schemes = {<<GradientPrefix, toLowerCase(contentSections[i].bg)>>}
            /\ Len(dom.gradientBg) = 1
            /\ dom.bodyGradient = {toLowerCase(contentSections[i].bg)}

\* Reached: the focus has changed twice, to the third section and then to the
\* second; the scheme is the second section's.
C23_Witness ==
    /\ hist.events = 2
    /\ hist.calls = 2
    /\ hist.op = "navItemClick"
    /\ FocusIs(2)
    /\ dom.gradientBg = <<(<<GradientPrefix, "noon">>)>>
    /\ dom.bodyGradient = {"noon"}

\* C24: after focus is applied without delay (pageSetup), the focused
\* section's rotating element has no rotation class, and every other section's
\* has 'rotate-cw' if the section's centre is below the window's centre and
\* 'rotate-ccw' otherwise.
C24_RotationByPosition ==
    page = "ready" =>
        \A i \in Indices :
            IF i \in Focus
            THEN Rotation(i) = {}
            ELSE Rotation(i) =
                     IF RLt(WindowYCenter(World), YCenter(World, i))
                     THEN {"rotate-cw"}
                     ELSE {"rotate-ccw"}

-----------------------------------------------------------------------------
(* isSectionInView, absent sections, page setup and the breakpoint *)

\* The window showing the page at offset y.
WindowAt(y) == [window |-> [window EXCEPT !.scrollY = I(y)]]

\* C25: for a fixed threshold and window height, a section that is in view at
\* one position is in view at every position where its centre is strictly
\* closer to the window's centre.
C25_InViewMonotonic ==
    [][hist'.op = "place" =>
          \A i \in Indices :
              RLt(Distance([window |-> window'], i), Distance([window |-> window], i))
              => \A p \in ViewThresholds :
                     isSectionInView([window |-> window], i, p)
                     => isSectionInView([window |-> window'], i, p)]_vars

\* Reached: in the window 90 high the second section, in view within a
\* quarter of the window at offset 80 (its centre 20.5 below the window's),
\* has come to offset 100 (0.5 below) and is in view.
C25_Witness ==
    /\ hist.op = "place"
    /\ window.innerHeight = FullHeight - 10
    /\ hist.arg = 80
    /\ window.scrollY = I(100)
    /\ isSectionInView(WindowAt(80), 2, Rat(1, 4))
    /\ Distance(WindowAt(80), 2) = Rat(41, 2)
    /\ Distance(WindowAt(100), 2) = Rat(1, 2)
    /\ isSectionInView(WindowAt(100), 2, Rat(1, 4))
    /\ ~isSectionInView(WindowAt(100), 1, Rat(1, 4))

\* The k-th requested id is the id of no content section.
Unmatched(k) == getSectionWithId(RequestedIds[k], contentSections) = 0

\* C26: a focus request for an id that matches no content section raises no
\* error and leaves the focused section, the focused nav item, the scroll
\* position and the scroll animation as they were (focusSection(sectionId,
\* ...) of the earlier revision).
C26_UnmatchedFocusIsNoOp ==
    [][\A k \in DOMAIN RequestedIds :
          (/\ hist'.op = "focusSection"
           /\ hist'.arg = k
           /\ Unmatched(k)
           /\ FocusCallEarlier(k))
          => /\ page' # "error"
             /\ Focus' = Focus
             /\ ItemFocus' = ItemFocus
             /\ window' = window
             /\ timers'.scroll = timers.scroll]_vars

\* C27: pageSetup on markup without content sections throws no error: it
\* builds no nav item and focuses nothing, and the resize and click listeners
\* it has installed answer (the scroll listener answers a pending scroll
\* event).
C27_SetupWithoutSections ==
    Len(contentSections) = 0 =>
        /\ page # "error"
        /\ page = "ready" =>
               /\ dom.navItems = <<>>
               /\ Focus = {}
               /\ ItemFocus = {}
               /\ ENABLED WindowClick
               /\ \A width \in Widths : ENABLED Resize(width)
               /\ window.scrollPending => ENABLED ScrollEvent

\* Reached: the page without sections is set up in the wide window, the menu
\* open and the countdown running.
C27_Witness ==
    /\ Len(contentSections) = 0
    /\ page = "ready"
    /\ hist.op = "pageSetup"
    /\ ~Small
    /\ MenuOpen
    /\ timers.inactivity.current

\* C28: when pageSetup has run on a page with at least one section, on a small
\* screen the menu is hidden (the container without 'open' and with 'hidden',
\* the content with 'open', body without 'disable-scroll'); on a large screen
\* the menu is open.
C28_HiddenByDefaultOnSmall ==
    (page = "ready" /\ Len(contentSections) >= 1) =>
        IF Small
        THEN /\ MenuClosed
             /\ "hidden" \in dom.navContainer
        ELSE MenuOpen

\* Reached: the page of three sections set up on the small screen, the first
\* section focused and the menu hidden.
C28_Witness ==
    /\ page = "ready"
    /\ hist.op = "pageSetup"
    /\ Len(contentSections) = 3
    /\ Small
    /\ FocusIs(1)
    /\ MenuClosed
    /\ "hidden" \in dom.navContainer

\* The fade classes of a class list.
Fades(classList) == classList \cap {"fade", "fade--slow"}

\* The menu as updateVisibilityState leaves it in the world w: on a small
\* screen closed and 'hidden' with the page's scroll enabled, on a large
\* screen open and not 'hidden'.
MatchesBreakpoint(w) ==
    IF hasSmallScreen(w)
    THEN /\ "open" \notin w.dom.navContainer
         /\ "hidden" \in w.dom.navContainer
         /\ "open" \in w.dom.content
         /\ "disable-scroll" \notin w.dom.body
    ELSE /\ "open" \in w.dom.navContainer
         /\ "hidden" \notin w.dom.navContainer

\* C29: after the first evaluation in buildNavigation and after every resize
\* the menu matches the breakpoint (small screen: closed, 'hidden' at once,
\* scroll enabled; large screen: open, not 'hidden'), and the evaluation adds
\* no fade class to the container or the content.
C29_MenuMatchesBreakpoint ==
    /\ \A v \in Viewports :
           LET w == Construct(Loading(v.width, v.height))
               w1 == updateVisibilityState(w)
           IN  /\ MatchesBreakpoint(w1)
               /\ Fades(w1.dom.navContainer) = {}
               /\ Fades(w1.dom.content) = {}
    /\ [][ResizeStep
          => /\ window'.innerWidth = hist'.arg
             /\ MatchesBreakpoint([window |-> window', dom |-> dom'])
             /\ Fades(dom'.navContainer) \subseteq Fades(dom.navContainer)
             /\ Fades(dom'.content) \subseteq Fades(dom.content)]_vars

\* Reached: the page set up in the wide window (the menu open) has been
\* resized to the small width: the menu is closed and 'hidden', the content
\* shown and the scroll enabled.
C29_Witness ==
    /\ hist.op = "resize"
    /\ hist.arg = SmallScreenMaxWidth
    /\ hist.events = 1
    /\ window.innerHeight = FullHeight
    /\ Small
    /\ MenuClosed
    /\ "hidden" \in dom.navContainer

\* C30: on a large screen every scroll event, the user's or the
\* ScrollManager's, leaves the menu open and the inactivity countdown
\* restarted; on a small screen a scroll event never opens the menu.
C30_ScrollOpensOnLarge ==
    [][ScrollEventStep
       => IF Small
          THEN MenuOpen' => MenuOpen
          ELSE /\ MenuOpen'
               /\ timers'.inactivity = Countdown("fresh")]_vars

\* Reached: in the wide window, with the pointer off the hotspot, the click on
\* a nav item closed the menu (window's click listener); a scroll event of the
\* ScrollManager's animation has opened it again and restarted the countdown.
C30_Witness ==
    /\ ~Small
    /\ hist.op = "navItemClick"
    /\ hist.events = 2
    /\ ~nav.isCursorOverNavMenu
    /\ window.scrollY # I(0)
    /\ ~window.scrollPending
    /\ MenuOpen
    /\ timers.inactivity = Countdown("fresh")

-----------------------------------------------------------------------------
(* Rotation classes, the closed menu and the scroll lock *)

\* C33: once every pending rotation timer has fired, the focused section's
\* rotating element carries no rotation class and every other section's
\* carries one: a removal delayed by a click strips no section that has lost
\* the focus since.
C33_DelayedRemovalSparesUnfocused ==
    (page = "ready" /\ \A r \in DOMAIN timers.rotation : timers.rotation[r] = 0)
    => \A i \in Indices :
           IF i \in Focus THEN Rotation(i) = {} ELSE Rotation(i) # {}

\* C34: no section's rotating element carries 'rotate-cw' and 'rotate-ccw'
\* at once.
C34_OneRotationClass ==
    \A i \in Indices : Rotation(i) # {"rotate-cw", "rotate-ccw"}

\* A step that calls openNavMenu: a click on the menu button that finds the
\* menu closed, a resize to a large screen, a scroll event on a large screen.
CallsOpenNavMenu ==
    \/ /\ hist'.op = "navToggleClick"
       /\ hist'.events = hist.events + 1
       /\ ~MenuOpen
    \/ ResizeStep /\ hist'.arg > SmallScreenMaxWidth
    \/ ScrollEventStep /\ ~Small

\* C35: a closed menu marked 'hidden' keeps 'hidden' over every step that
\* calls no openNavMenu (an expiry of the inactivity timer, a click off the
\* hotspot, a focus change on a small screen).
C35_HiddenUntilOpened ==
    [][(/\ ~MenuOpen
        /\ "hidden" \in dom.navContainer
        /\ ~CallsOpenNavMenu)
       => "hidden" \in dom'.navContainer]_vars

\* C36: body carries 'disable-scroll' only while the menu is open and the
\* screen is small.
C36_ScrollLockOnlyOpenSmall ==
    "disable-scroll" \in dom.body => (MenuOpen /\ Small)

-----------------------------------------------------------------------------
(* The scroll animation of a nav item click and the user's scrolls *)

\* The animation of the last scrollTo call has finished: no timer is pending
\* and every scroll event has been handled.
AnimationFinished ==
    /\ page = "ready"
    /\ timers.scroll = {}
    /\ ~window.scrollPending

\* C31: when the animation started by the click on section S's nav item has
\* finished with the page at S's offset (as far as the page scrolls), S is
\* the focused section, whatever user scrolls came between its ticks.
C31_ClickedSectionFocusedAtEnd ==
    (/\ AnimationFinished
     /\ hist.calls >= 1
     /\ \E S \in hist.focusAtCall : window.scrollY = Clamped(I(OffsetTop(S))))
    => Focus = hist.focusAtCall

\* C32: once an animation has finished, triggeredScrollEvent is false, so
\* that the next user scroll is handled as the user's and focuses the section
\* in view.
C32_FlagFalseAfterAnimation ==
    AnimationFinished => ~scrollManager.triggeredScrollEvent

====
